---- MODULE Spec2Model ----
(***************************************************************************)
(* The quantization recipe (recipes/quantize.py) and the Llama2 model      *)
(* builders (torchtune/models/llama2/_model_builders.py).                  *)
(*                                                                         *)
(* A Python string is a sequence of one-character strings, a filesystem    *)
(* path is a sequence of path components, a keyword-argument dict is a     *)
(* function from argument names to values.  A model (nn.Module) is the     *)
(* sequence of the operations that produced it, so that two models are     *)
(* equal exactly when they went through the same operations.               *)
(***************************************************************************)
EXTENDS Integers, Sequences, FiniteSets, TLC

VARIABLES
    pc,                 \* position of main / of the recipe method it is in
    cfg,                \* the DictConfig handed to main
    quantization_mode,  \* self._quantization_mode
    model,              \* the local `model` of _setup_model
    self_model,         \* self._model
    log,                \* the collaborator calls made so far, in order
    disk,               \* the files written by torch.save
    raised,             \* the exception that left main, if any
    call,               \* the model-builder call made: [fn, kw]
    built,              \* the component-builder / tokenizer call it resulted in
    resolver_calls,     \* arguments _get_prompt_template was called with
    name_args,          \* inputs of the checkpoint file naming
    name_result         \* the path computed for them

recipeVars  == <<pc, cfg, quantization_mode, model, self_model, log, disk, raised>>
builderVars == <<call, built, resolver_calls>>
nameVars    == <<name_args, name_result>>
vars        == <<recipeVars, builderVars, nameVars>>

(***************************************************************************)
(* Bounds                                                                  *)
(***************************************************************************)
MaxFileLen == 3     \* longest checkpoint file name
MaxModeLen == 3     \* longest base of a quantization mode string

Seqs(A, n) == UNION {[1..k -> A] : k \in 0..n}

(***************************************************************************)
(* Python str operations                                                   *)
(***************************************************************************)
\* `sub in s`
Contains(s, sub) ==
    \E i \in 0..(Len(s) - Len(sub)) : SubSeq(s, i + 1, i + Len(sub)) = sub

\* s.split(sep)[0]: the part of s before the first occurrence of the character sep
SplitFirst(s, sep) ==
    IF \E i \in 1..Len(s) : s[i] = sep
    THEN LET i == CHOOSE i \in 1..Len(s) :
                      s[i] = sep /\ \A j \in 1..(i - 1) : s[j] # sep
         IN SubSeq(s, 1, i - 1)
    ELSE s

\* s.rstrip(chars): drops trailing characters for as long as they are in chars
RECURSIVE RStrip(_, _)
RStrip(s, chars) ==
    IF Len(s) > 0 /\ s[Len(s)] \in chars
    THEN RStrip(SubSeq(s, 1, Len(s) - 1), chars)
    ELSE s

\* s.removesuffix(suf)
RemoveSuffix(s, suf) ==
    IF Len(s) >= Len(suf) /\ SubSeq(s, Len(s) - Len(suf) + 1, Len(s)) = suf
    THEN SubSeq(s, 1, Len(s) - Len(suf))
    ELSE s

\* s.rfind(ch): the last index (from 1) of ch in s, 0 when absent
RFind(s, ch) ==
    IF \E i \in 1..Len(s) : s[i] = ch
    THEN CHOOSE i \in 1..Len(s) : s[i] = ch /\ \A j \in (i + 1)..Len(s) : s[j] # ch
    ELSE 0

(***************************************************************************)
(* pathlib                                                                 *)
(***************************************************************************)
\* Path.joinpath(dir, name) for a name without path separators: an empty name
\* adds no component
JoinPath(dir, name) == IF name = <<>> THEN dir ELSE Append(dir, name)

\* PurePath.suffix of a final component: from its last '.', unless that is the
\* first or the last character
Suffix(name) ==
    LET i == RFind(name, ".")
    IN IF 1 < i /\ i < Len(name) THEN SubSeq(name, i, Len(name)) ELSE <<>>

\* Path.with_suffix(suffix): replaces the suffix of the final component
WithSuffix(path, suffix) ==
    LET name == path[Len(path)]
        stem == SubSeq(name, 1, Len(name) - Len(Suffix(name)))
    IN [path EXCEPT ![Len(path)] = stem \o suffix]

(***************************************************************************)
(* recipes/quantize.py: the checkpoint file name                           *)
(***************************************************************************)
QatChars == {"-", "q", "a", "t"}
QAT      == <<"q", "a", "t">>
DashQat  == <<"-">> \o QAT
Ckpt     == <<".", "c", "k", "p", "t">>

\* save_checkpoint, line 105
FileStem(file0) == SplitFirst(file0, ".")

\* save_checkpoint, line 110: f"{file_name}-{self._quantization_mode}".rstrip("-qat")
StrippedName(file_name, mode) == RStrip(file_name \o <<"-">> \o mode, QatChars)

\* save_checkpoint, lines 105-111
CheckpointFile(output_dir, file0, mode) ==
    WithSuffix(JoinPath(output_dir, StrippedName(FileStem(file0), mode)), Ckpt)

(***************************************************************************)
(* recipes/quantize.py: the collaborators                                  *)
(***************************************************************************)
NoModel == <<>>
NoError == [at |-> "none", error |-> "none"]

\* config.instantiate(model_cfg): a freshly built model
Instantiate == <<"instantiate">>
\* quantizer.prepare / convert / quantize return the transformed model
Prepare(m)  == Append(m, "prepare")
Convert(m)  == Append(m, "convert")
Quantize(m) == Append(m, "quantize")
\* model.load_state_dict(sd) changes the model in place
LoadStateDict(m) == Append(m, "load_state_dict")
\* model.state_dict()
StateDict(m) == [state_dict_of |-> m]

\* the quantizer classes the recipe documents, and the mode of each
Quantizers == {"Int8DynActInt4WeightQuantizer", "Int8DynActInt4WeightQATQuantizer"}
GetQuantizerMode(q) ==
    IF q = "Int8DynActInt4WeightQATQuantizer"
    THEN <<"8", "d", "a", "4", "w">> \o DashQat
    ELSE <<"8", "d", "a", "4", "w">>

\* the error each collaborator call raises when it fails
ErrorOf(op) ==
    CASE op = "ckpt_dict[MODEL_KEY]"          -> "KeyError"
      [] op = "load_state_dict"               -> "RuntimeError: missing keys"
      [] op = "validate_expected_param_dtype" -> "ValueError: dtype mismatch"
      [] OTHER                                -> "error of " \o op

(***************************************************************************)
(* recipes/quantize.py: control flow                                       *)
(***************************************************************************)
\* _setup_model line 77: `"qat" in self._quantization_mode`
SetupIsQat(mode) == Contains(mode, QAT)

\* (mutant) quantize tests the mode with == where _setup_model tests it with `in`
QuantizeIsQat_Equals(mode) == mode = QAT

\* quantize line 91: `"qat" in self._quantization_mode`
QuantizeIsQat(mode) == Contains(mode, QAT)

\* (mutant) the transformed model is not stored back into self._model
QuantizedModel_Discarded(m, mode) == m

\* quantize, lines 91-94: the model stored back into self._model
QuantizedModel(m, mode) == IF QuantizeIsQat(mode) THEN Convert(m) ELSE Quantize(m)
TransformOp(mode)       == IF QuantizeIsQat(mode) THEN "convert" ELSE "quantize"

\* (mutant) main saves the checkpoint before it quantizes
MainNext_SaveFirst(method) ==
    CASE method = "__init__"        -> "setup"
      [] method = "setup"           -> "save_checkpoint"
      [] method = "save_checkpoint" -> "quantize"
      [] method = "quantize"        -> "done"

\* main: where control goes when a recipe method returns
MainNext(method) ==
    CASE method = "__init__"        -> "setup"
      [] method = "setup"           -> "quantize"
      [] method = "quantize"        -> "save_checkpoint"
      [] method = "save_checkpoint" -> "done"

\* (mutant) _setup_model loads the state dict before it prepares the model
SetupModelNext_LoadFirst(mode, stmt) ==
    CASE stmt = "instantiate"     -> "load_state_dict"
      [] stmt = "load_state_dict" -> IF SetupIsQat(mode) THEN "prepare" ELSE "validate"
      [] stmt = "prepare"         -> "validate"
      [] stmt = "validate"        -> MainNext("setup")

\* _setup_model: the statement after each statement
SetupModelNext(mode, stmt) ==
    CASE stmt = "instantiate"     -> IF SetupIsQat(mode) THEN "prepare" ELSE "load_state_dict"
      [] stmt = "prepare"         -> "load_state_dict"
      [] stmt = "load_state_dict" -> "validate"
      [] stmt = "validate"        -> MainNext("setup")

\* (mutant) the exception is caught and the run goes on
AfterRaise_Swallowed(next) == next

\* no statement of the recipe or of main catches an exception: a raise in any
\* of them leaves main (next is where a normal return would have gone)
AfterRaise(next) == "raised"

(***************************************************************************)
(* recipes/quantize.py: the run of main                                    *)
(***************************************************************************)
FileAlphabet == {"m", "a", "."}
FileNames    == Seqs(FileAlphabet, MaxFileLen) \ {<<>>}
OutputDirs   == { << <<"o", "u", "t">> >>, << <<"r", "u", "n">>, <<"o", "u", "t">> >> }
Devices      == {"cpu", "cuda"}

Entry(op, m) == [op |-> op, arg |-> m]

Raise(op, next) ==
    /\ pc' = AfterRaise(next)
    /\ raised' = [at |-> op, error |-> ErrorOf(op)]

\* the collaborator calls of __init__, in order
InitCalls ==
    << Entry("get_device", NoModel), Entry("get_dtype", NoModel),
       Entry("instantiate_quantizer", NoModel), Entry("get_quantizer_mode", NoModel),
       Entry("set_seed", NoModel) >>

\* main line 123-124: log_config, QuantizationRecipe(cfg)
Construct ==
    /\ pc = "main"
    /\ log' = log \o <<Entry("log_config", NoModel)>> \o InitCalls
    /\ quantization_mode' = GetQuantizerMode(cfg.quantizer)
    /\ pc' = MainNext("__init__")
    /\ UNCHANGED <<builderVars, nameVars, cfg, model, self_model, disk, raised>>

\* the k-th collaborator call of __init__ raises
ConstructRaises ==
    /\ pc = "main"
    /\ \E k \in 1..Len(InitCalls) :
          /\ log' = log \o <<Entry("log_config", NoModel)>> \o SubSeq(InitCalls, 1, k)
          /\ Raise(InitCalls[k].op, MainNext("__init__"))
    /\ UNCHANGED <<builderVars, nameVars, cfg, quantization_mode, model, self_model, disk>>

\* setup line 63, load_checkpoint lines 57-60
LoadCheckpoint ==
    /\ pc = "setup"
    /\ log' = log \o <<Entry("instantiate_checkpointer", NoModel),
                       Entry("load_checkpoint", NoModel)>>
    /\ \/ pc' = "setup_lookup" /\ UNCHANGED raised
       \/ Raise("load_checkpoint", "setup_lookup")
    /\ UNCHANGED <<builderVars, nameVars, cfg, quantization_mode, model, self_model, disk>>

\* setup line 66: ckpt_dict[training.MODEL_KEY]
LookupModelKey ==
    /\ pc = "setup_lookup"
    /\ log' = Append(log, Entry("ckpt_dict[MODEL_KEY]", NoModel))
    /\ \/ pc' = "instantiate" /\ UNCHANGED raised
       \/ Raise("ckpt_dict[MODEL_KEY]", "instantiate")
    /\ UNCHANGED <<builderVars, nameVars, cfg, quantization_mode, model, self_model, disk>>

\* _setup_model lines 74-75
InstantiateModel ==
    /\ pc = "instantiate"
    /\ log' = Append(log, Entry("instantiate_model", NoModel))
    /\ \/ /\ model' = Instantiate
          /\ pc' = SetupModelNext(quantization_mode, "instantiate")
          /\ UNCHANGED raised
       \/ /\ Raise("instantiate_model", SetupModelNext(quantization_mode, "instantiate"))
          /\ UNCHANGED model
    /\ UNCHANGED <<builderVars, nameVars, cfg, quantization_mode, self_model, disk>>

\* _setup_model line 78
PrepareModel ==
    /\ pc = "prepare"
    /\ log' = Append(log, Entry("prepare", model))
    /\ \/ /\ model' = Prepare(model)
          /\ pc' = SetupModelNext(quantization_mode, "prepare")
          /\ UNCHANGED raised
       \/ /\ Raise("prepare", SetupModelNext(quantization_mode, "prepare"))
          /\ UNCHANGED model
    /\ UNCHANGED <<builderVars, nameVars, cfg, quantization_mode, self_model, disk>>

\* _setup_model line 79
LoadModelStateDict ==
    /\ pc = "load_state_dict"
    /\ log' = Append(log, Entry("load_state_dict", model))
    /\ \/ /\ model' = LoadStateDict(model)
          /\ pc' = SetupModelNext(quantization_mode, "load_state_dict")
          /\ UNCHANGED raised
       \/ /\ Raise("load_state_dict", SetupModelNext(quantization_mode, "load_state_dict"))
          /\ UNCHANGED model
    /\ UNCHANGED <<builderVars, nameVars, cfg, quantization_mode, self_model, disk>>

\* _setup_model lines 82-86 and the assignment of setup line 64
ValidateDtype ==
    /\ pc = "validate"
    /\ log' = Append(log, Entry("validate_expected_param_dtype", model))
    /\ \/ /\ self_model' = model
          /\ pc' = SetupModelNext(quantization_mode, "validate")
          /\ UNCHANGED raised
       \/ /\ Raise("validate_expected_param_dtype",
                   SetupModelNext(quantization_mode, "validate"))
          /\ UNCHANGED self_model
    /\ UNCHANGED <<builderVars, nameVars, cfg, quantization_mode, model, disk>>

\* quantize lines 89-101
QuantizeModel ==
    /\ pc = "quantize"
    /\ \/ /\ self_model' = QuantizedModel(self_model, quantization_mode)
          /\ log' = log \o <<Entry(TransformOp(quantization_mode), self_model)>>
                        \o (IF cfg.device # "cpu"
                            THEN <<Entry("max_memory_allocated", NoModel)>>
                            ELSE <<>>)
          /\ pc' = MainNext("quantize")
          /\ UNCHANGED raised
       \/ /\ log' = Append(log, Entry(TransformOp(quantization_mode), self_model))
          /\ Raise(TransformOp(quantization_mode), MainNext("quantize"))
          /\ UNCHANGED self_model
    /\ UNCHANGED <<builderVars, nameVars, cfg, quantization_mode, model, disk>>

\* save_checkpoint lines 103-118
SaveCheckpoint ==
    /\ pc = "save_checkpoint"
    /\ LET ckpt_dict == StateDict(self_model)
           checkpoint_file == CheckpointFile(cfg.output_dir, cfg.checkpoint_file0,
                                             quantization_mode)
       IN \/ /\ log' = log \o <<Entry("state_dict", self_model), Entry("mkdir", NoModel),
                                Entry("torch.save", self_model), Entry("getsize", NoModel)>>
             /\ disk' = disk \cup {[path |-> checkpoint_file, content |-> ckpt_dict]}
             /\ pc' = MainNext("save_checkpoint")
             /\ UNCHANGED raised
          \/ /\ log' = log \o <<Entry("state_dict", self_model), Entry("mkdir", NoModel)>>
             /\ Raise("mkdir", MainNext("save_checkpoint"))
             /\ UNCHANGED disk
          \/ /\ log' = log \o <<Entry("state_dict", self_model), Entry("mkdir", NoModel),
                                Entry("torch.save", self_model)>>
             /\ Raise("torch.save", MainNext("save_checkpoint"))
             /\ UNCHANGED disk
    /\ UNCHANGED <<builderVars, nameVars, cfg, quantization_mode, model, self_model>>

Idle ==
    /\ call = [fn |-> "none"] /\ built = [fn |-> "none"] /\ resolver_calls = <<>>
    /\ name_args = [file |-> <<>>, mode |-> <<>>, output_dir |-> <<>>]
    /\ name_result = <<>>

Init ==
    /\ pc = "main"
    /\ cfg \in [checkpoint_file0 : FileNames, output_dir : OutputDirs,
                quantizer : Quantizers, device : Devices]
    /\ quantization_mode = <<>>
    /\ model = NoModel /\ self_model = NoModel
    /\ log = <<>> /\ disk = {} /\ raised = NoError
    /\ Idle

Next ==
    \/ Construct \/ ConstructRaises \/ LoadCheckpoint \/ LookupModelKey
    \/ InstantiateModel \/ PrepareModel \/ LoadModelStateDict \/ ValidateDtype
    \/ QuantizeModel \/ SaveCheckpoint

Spec == Init /\ [][Next]_vars

(***************************************************************************)
(* torchtune/models/llama2/_model_builders.py                              *)
(*                                                                         *)
(* A call is the function of its keyword arguments; an argument left out   *)
(* is not in its domain.  An Optional value is the empty set (None) or a   *)
(* singleton.  Float literals are kept as written.                         *)
(***************************************************************************)
NoArgs == [n \in {} |-> n]

\* Python binding of keyword arguments to a signature with defaults
Bind(kw, defaults) == kw @@ defaults

\* functools.partial(f, **fixed)(**kw) calls f(**{**fixed, **kw})
PartialKw(fixed, kw) == kw @@ fixed

\* _get_prompt_template (torchtune.data._prompt_templates): resolves a template
\* specification into a template object
GetPromptTemplate(t) == [template_of |-> t]

llama2_7b ==
    [fn |-> "llama2",
     kw |-> [vocab_size |-> 32000, num_layers |-> 32, num_heads |-> 32, num_kv_heads |-> 32,
             embed_dim |-> 4096, max_seq_len |-> 4096, attn_dropout |-> "0.0",
             norm_eps |-> "1e-5"]]

\* (mutant) truncation_type is not forwarded to the tokenizer
llama2_tokenizer_NoTruncation(kw) ==
    LET a == Bind(kw, [max_seq_len |-> {},
                       prompt_template |-> {"torchtune.models.llama2.Llama2ChatTemplate"},
                       truncation_type |-> "right"])
    IN [fn |-> "Llama2Tokenizer",
        kw |-> [path |-> a.path, max_seq_len |-> a.max_seq_len,
                prompt_template |-> {GetPromptTemplate(t) : t \in a.prompt_template},
                truncation_type |-> "right"],
        resolved |-> IF a.prompt_template # {}
                     THEN <<CHOOSE t \in a.prompt_template : TRUE>> ELSE <<>>]

\* the tokenizer call made, and the calls of _get_prompt_template made for it
llama2_tokenizer(kw) ==
    LET a == Bind(kw, [max_seq_len |-> {},
                       prompt_template |-> {"torchtune.models.llama2.Llama2ChatTemplate"},
                       truncation_type |-> "right"])
    IN [fn |-> "Llama2Tokenizer",
        kw |-> [path |-> a.path, max_seq_len |-> a.max_seq_len,
                prompt_template |-> IF a.prompt_template # {}
                                    THEN {GetPromptTemplate(CHOOSE t \in a.prompt_template : TRUE)}
                                    ELSE {},
                truncation_type |-> a.truncation_type],
        resolved |-> IF a.prompt_template # {}
                     THEN <<CHOOSE t \in a.prompt_template : TRUE>> ELSE <<>>]

lora_llama2_7b(kw) ==
    LET a == Bind(kw, [apply_lora_to_mlp |-> FALSE, apply_lora_to_output |-> FALSE,
                       lora_rank |-> 8, lora_alpha |-> 16, lora_dropout |-> "0.0",
                       use_dora |-> FALSE, quantize_base |-> FALSE])
    IN [fn |-> "lora_llama2",
        kw |-> [lora_attn_modules |-> a.lora_attn_modules,
                apply_lora_to_mlp |-> a.apply_lora_to_mlp,
                apply_lora_to_output |-> a.apply_lora_to_output,
                vocab_size |-> 32000, num_layers |-> 32, num_heads |-> 32,
                num_kv_heads |-> 32, embed_dim |-> 4096, max_seq_len |-> 4096,
                attn_dropout |-> "0.0", norm_eps |-> "1e-5",
                lora_rank |-> a.lora_rank, lora_alpha |-> a.lora_alpha,
                lora_dropout |-> a.lora_dropout, use_dora |-> a.use_dora,
                quantize_base |-> a.quantize_base]]

\* (mutant) the partial does not fix quantize_base
qlora_llama2_7b_NotQuantized(kw) == lora_llama2_7b(kw)

qlora_llama2_7b(kw) == lora_llama2_7b(PartialKw([quantize_base |-> TRUE], kw))

llama2_13b ==
    [fn |-> "llama2",
     kw |-> [vocab_size |-> 32000, num_layers |-> 40, num_heads |-> 40, num_kv_heads |-> 40,
             embed_dim |-> 5120, intermediate_dim |-> 13824, max_seq_len |-> 4096,
             attn_dropout |-> "0.0", norm_eps |-> "1e-5"]]

lora_llama2_13b(kw) ==
    LET a == Bind(kw, [apply_lora_to_mlp |-> FALSE, apply_lora_to_output |-> FALSE,
                       lora_rank |-> 8, lora_alpha |-> 16, lora_dropout |-> "0.0",
                       use_dora |-> FALSE, quantize_base |-> FALSE])
    IN [fn |-> "lora_llama2",
        kw |-> [lora_attn_modules |-> a.lora_attn_modules,
                apply_lora_to_mlp |-> a.apply_lora_to_mlp,
                apply_lora_to_output |-> a.apply_lora_to_output,
                vocab_size |-> 32000, num_layers |-> 40, num_heads |-> 40,
                num_kv_heads |-> 40, embed_dim |-> 5120, intermediate_dim |-> 13824,
                max_seq_len |-> 4096, attn_dropout |-> "0.0", norm_eps |-> "1e-5",
                lora_rank |-> a.lora_rank, lora_alpha |-> a.lora_alpha,
                lora_dropout |-> a.lora_dropout, use_dora |-> a.use_dora,
                quantize_base |-> a.quantize_base]]

qlora_llama2_13b(kw) == lora_llama2_13b(PartialKw([quantize_base |-> TRUE], kw))

llama2_70b ==
    [fn |-> "llama2",
     kw |-> [vocab_size |-> 32000, num_layers |-> 80, num_heads |-> 64, num_kv_heads |-> 8,
             embed_dim |-> 8192, intermediate_dim |-> 28672, max_seq_len |-> 4096,
             attn_dropout |-> "0.0", norm_eps |-> "1e-5"]]

\* (mutant) the 70B LoRA builder is left with the 13B hyperparameters
lora_llama2_70b_As13b(kw) == lora_llama2_13b(kw)

lora_llama2_70b(kw) ==
    LET a == Bind(kw, [apply_lora_to_mlp |-> FALSE, apply_lora_to_output |-> FALSE,
                       lora_rank |-> 8, lora_alpha |-> 16, lora_dropout |-> "0.0",
                       use_dora |-> FALSE, quantize_base |-> FALSE])
    IN [fn |-> "lora_llama2",
        kw |-> [lora_attn_modules |-> a.lora_attn_modules,
                apply_lora_to_mlp |-> a.apply_lora_to_mlp,
                apply_lora_to_output |-> a.apply_lora_to_output,
                vocab_size |-> 32000, num_layers |-> 80, num_heads |-> 64,
                num_kv_heads |-> 8, embed_dim |-> 8192, max_seq_len |-> 4096,
                intermediate_dim |-> 28672, attn_dropout |-> "0.0", norm_eps |-> "1e-5",
                lora_rank |-> a.lora_rank, lora_alpha |-> a.lora_alpha,
                lora_dropout |-> a.lora_dropout, use_dora |-> a.use_dora,
                quantize_base |-> a.quantize_base]]

qlora_llama2_70b(kw) == lora_llama2_70b(PartialKw([quantize_base |-> TRUE], kw))

llama2_reward_7b ==
    [fn |-> "llama2_classifier",
     kw |-> [num_classes |-> 1, vocab_size |-> 32000, num_layers |-> 32, num_heads |-> 32,
             num_kv_heads |-> 32, embed_dim |-> 4096, max_seq_len |-> 4096,
             attn_dropout |-> "0.0", norm_eps |-> "1e-5"]]

lora_llama2_reward_7b(kw) ==
    LET a == Bind(kw, [apply_lora_to_mlp |-> FALSE, apply_lora_to_output |-> FALSE,
                       lora_rank |-> 8, lora_alpha |-> 16, lora_dropout |-> "0.0",
                       use_dora |-> FALSE, quantize_base |-> FALSE])
    IN [fn |-> "lora_llama2_classifier",
        kw |-> [lora_attn_modules |-> a.lora_attn_modules,
                apply_lora_to_mlp |-> a.apply_lora_to_mlp,
                apply_lora_to_output |-> a.apply_lora_to_output,
                num_classes |-> 1, vocab_size |-> 32000, num_layers |-> 32,
                num_heads |-> 32, num_kv_heads |-> 32, embed_dim |-> 4096,
                max_seq_len |-> 4096, attn_dropout |-> "0.0", norm_eps |-> "1e-5",
                lora_rank |-> a.lora_rank, lora_alpha |-> a.lora_alpha,
                lora_dropout |-> a.lora_dropout, use_dora |-> a.use_dora,
                quantize_base |-> a.quantize_base]]

\* line 375: the partial is taken of lora_llama2_7b
qlora_llama2_reward_7b(kw) == lora_llama2_7b(PartialKw([quantize_base |-> TRUE], kw))

(***************************************************************************)
(* Calls of the model builders                                             *)
(***************************************************************************)
Arg(n, S) == {NoArgs} \cup {n :> v : v \in S}

AttnModules == { <<"q_proj", "v_proj">>, <<"q_proj", "k_proj", "v_proj", "output_proj">> }

\* every way to call a LoRA builder: lora_attn_modules is required, each other
\* argument is given or left out
LoraCalls ==
    { [lora_attn_modules |-> am] @@ mlp @@ out @@ rank @@ alpha @@ drop @@ dora @@ qb :
        am \in AttnModules,
        mlp \in Arg("apply_lora_to_mlp", BOOLEAN),
        out \in Arg("apply_lora_to_output", BOOLEAN),
        rank \in Arg("lora_rank", {8, 16}),
        alpha \in Arg("lora_alpha", {16, 32}),
        drop \in Arg("lora_dropout", {"0.0", "0.05"}),
        dora \in Arg("use_dora", BOOLEAN),
        qb \in Arg("quantize_base", BOOLEAN) }

TokenizerCalls ==
    { [path |-> p] @@ msl @@ pt @@ tt :
        p \in {"tokenizer.model", "/tmp/llama2/tokenizer.model"},
        msl \in Arg("max_seq_len", {{}, {512}}),
        pt \in Arg("prompt_template",
                   {{}, {"torchtune.models.llama2.Llama2ChatTemplate"},
                    {"torchtune.data.ChatMLTemplate"}}),
        tt \in Arg("truncation_type", {"left", "right"}) }

Returns(fn, kw, result) ==
    /\ call' = [fn |-> fn, kw |-> kw]
    /\ built' = [fn |-> result.fn, kw |-> result.kw]
    /\ UNCHANGED <<recipeVars, nameVars>>

Call_llama2_7b ==
    /\ call.fn = "none"
    /\ Returns("llama2_7b", NoArgs, llama2_7b)
    /\ UNCHANGED resolver_calls

Call_llama2_13b ==
    /\ call.fn = "none"
    /\ Returns("llama2_13b", NoArgs, llama2_13b)
    /\ UNCHANGED resolver_calls

Call_llama2_70b ==
    /\ call.fn = "none"
    /\ Returns("llama2_70b", NoArgs, llama2_70b)
    /\ UNCHANGED resolver_calls

Call_llama2_reward_7b ==
    /\ call.fn = "none"
    /\ Returns("llama2_reward_7b", NoArgs, llama2_reward_7b)
    /\ UNCHANGED resolver_calls

Call_llama2_tokenizer ==
    /\ call.fn = "none"
    /\ \E kw \in TokenizerCalls :
          /\ Returns("llama2_tokenizer", kw, llama2_tokenizer(kw))
          /\ resolver_calls' = resolver_calls \o llama2_tokenizer(kw).resolved

Call_lora_llama2_7b ==
    /\ call.fn = "none"
    /\ \E kw \in LoraCalls : Returns("lora_llama2_7b", kw, lora_llama2_7b(kw))
    /\ UNCHANGED resolver_calls

Call_qlora_llama2_7b ==
    /\ call.fn = "none"
    /\ \E kw \in LoraCalls : Returns("qlora_llama2_7b", kw, qlora_llama2_7b(kw))
    /\ UNCHANGED resolver_calls

Call_lora_llama2_13b ==
    /\ call.fn = "none"
    /\ \E kw \in LoraCalls : Returns("lora_llama2_13b", kw, lora_llama2_13b(kw))
    /\ UNCHANGED resolver_calls

Call_qlora_llama2_13b ==
    /\ call.fn = "none"
    /\ \E kw \in LoraCalls : Returns("qlora_llama2_13b", kw, qlora_llama2_13b(kw))
    /\ UNCHANGED resolver_calls

Call_lora_llama2_70b ==
    /\ call.fn = "none"
    /\ \E kw \in LoraCalls : Returns("lora_llama2_70b", kw, lora_llama2_70b(kw))
    /\ UNCHANGED resolver_calls

Call_qlora_llama2_70b ==
    /\ call.fn = "none"
    /\ \E kw \in LoraCalls : Returns("qlora_llama2_70b", kw, qlora_llama2_70b(kw))
    /\ UNCHANGED resolver_calls

Call_lora_llama2_reward_7b ==
    /\ call.fn = "none"
    /\ \E kw \in LoraCalls : Returns("lora_llama2_reward_7b", kw, lora_llama2_reward_7b(kw))
    /\ UNCHANGED resolver_calls

Call_qlora_llama2_reward_7b ==
    /\ call.fn = "none"
    /\ \E kw \in LoraCalls : Returns("qlora_llama2_reward_7b", kw, qlora_llama2_reward_7b(kw))
    /\ UNCHANGED resolver_calls

RecipeIdle ==
    /\ pc = "idle"
    /\ cfg = [checkpoint_file0 |-> <<>>, output_dir |-> <<>>,
              quantizer |-> "none", device |-> "cpu"]
    /\ quantization_mode = <<>>
    /\ model = NoModel /\ self_model = NoModel
    /\ log = <<>> /\ disk = {} /\ raised = NoError

InitBuilders == RecipeIdle /\ Idle

NextBuilders ==
    \/ Call_llama2_7b \/ Call_llama2_tokenizer \/ Call_lora_llama2_7b \/ Call_qlora_llama2_7b
    \/ Call_llama2_13b \/ Call_lora_llama2_13b \/ Call_qlora_llama2_13b
    \/ Call_llama2_70b \/ Call_lora_llama2_70b \/ Call_qlora_llama2_70b
    \/ Call_llama2_reward_7b \/ Call_lora_llama2_reward_7b \/ Call_qlora_llama2_reward_7b

SpecBuilders == InitBuilders /\ [][NextBuilders]_vars

(***************************************************************************)
(* The checkpoint file naming of save_checkpoint, on its own                *)
(***************************************************************************)
ModeAlphabet == {"w", "q", "a", "t"}
\* mode strings: a non-empty base, and the base followed by "-qat"
ModeStrings  ==
    {b \o suf : b \in Seqs(ModeAlphabet, MaxModeLen) \ {<<>>}, suf \in {<<>>, DashQat}}
\* file names that begin with a character rstrip("-qat") leaves alone, so that
\* the stem always survives in the name
NamedFiles   == {f \in FileNames : f[1] = "m"}

InitNaming ==
    /\ RecipeIdle
    /\ call = [fn |-> "none"] /\ built = [fn |-> "none"] /\ resolver_calls = <<>>
    /\ name_args \in [file : NamedFiles, mode : ModeStrings, output_dir : OutputDirs]
    /\ name_result = <<>>

\* save_checkpoint lines 105-111 for cfg.checkpointer.checkpoint_files[0] = file,
\* cfg.checkpointer.output_dir = output_dir and self._quantization_mode = mode
NameCheckpoint ==
    /\ name_result = <<>>
    /\ name_result' = CheckpointFile(name_args.output_dir, name_args.file, name_args.mode)
    /\ UNCHANGED <<recipeVars, builderVars, name_args>>

NextNaming == NameCheckpoint

SpecNaming == InitNaming /\ [][NextNaming]_vars

(***************************************************************************)
(* Properties of the run of main                                           *)
(***************************************************************************)
Transforms == {"convert", "quantize"}
SetupOps   == {"load_checkpoint", "ckpt_dict[MODEL_KEY]", "instantiate_model", "prepare",
               "load_state_dict", "validate_expected_param_dtype"}

Idx(ops)       == {i \in DOMAIN log : log[i].op \in ops}
Count(ops)     == Cardinality(Idx(ops))
Precedes(A, B) == \A j \in Idx(B) : \E i \in Idx(A) : i < j
IsQatMode      == Contains(quantization_mode, QAT)
Under(dir, path) == Len(path) = Len(dir) + 1 /\ SubSeq(path, 1, Len(dir)) = dir

\* C1: the steps of main happen in the order construct, setup (load the
\* checkpoint, build the model, load the state dict), quantize, save, each at
\* most once and each exactly once in a completed run; the transform is never
\* invoked before load_state_dict, and no file is written before the transform.
C1_StepOrder ==
    /\ \A op \in {"set_seed", "load_checkpoint", "instantiate_model",
                  "load_state_dict", "torch.save"} : Count({op}) <= 1
    /\ Count(Transforms) <= 1
    /\ Precedes({"set_seed"}, {"load_checkpoint"})
    /\ Precedes({"load_checkpoint"}, {"instantiate_model"})
    /\ Precedes({"instantiate_model"}, {"load_state_dict"})
    /\ Precedes({"load_state_dict"}, Transforms)
    /\ Precedes(Transforms, {"torch.save"})
    /\ disk # {} => Count(Transforms) = 1 /\ Count({"torch.save"}) = 1
    /\ pc = "done" =>
          /\ \A op \in {"set_seed", "load_checkpoint", "instantiate_model",
                        "load_state_dict", "torch.save"} : Count({op}) = 1
          /\ Count(Transforms) = 1

C1_Witness == pc = "done" /\ disk # {} /\ Count({"torch.save"}) = 1

\* C2: a mode containing "qat" means prepare once (in setup) and convert once
\* (in quantize) and never quantize; any other mode means quantize once and
\* never prepare or convert.  Nothing is converted that was not prepared, and a
\* completed run that prepared also converted.
C2_QuantizerCapability ==
    /\ \A op \in {"prepare", "convert", "quantize"} : Count({op}) <= 1
    /\ IsQatMode => Count({"quantize"}) = 0
    /\ ~IsQatMode => Count({"prepare", "convert"}) = 0
    /\ Precedes({"prepare"}, {"convert"})
    /\ \A i \in Idx({"convert"}) : \E k \in DOMAIN log[i].arg : log[i].arg[k] = "prepare"
    /\ pc = "done" =>
          IF IsQatMode
          THEN Count({"prepare"}) = 1 /\ Count({"convert"}) = 1
          ELSE Count({"quantize"}) = 1

C2_Witness == pc = "done" /\ IsQatMode /\ Count({"prepare"}) = 1 /\ Count({"convert"}) = 1

C7_FailureStops ==
    /\ raised.at \in SetupOps => Count(Transforms) = 0 /\ disk = {}
    /\ raised.at \in Transforms => disk = {}
    /\ raised # NoError =>
          /\ pc = "raised"
          /\ raised.error = ErrorOf(raised.at)
          /\ log[Len(log)].op = raised.at
          /\ ~ENABLED Next

C7_Witness ==
    /\ raised.at = "validate_expected_param_dtype"
    /\ Count({"load_state_dict"}) = 1

\* C9: the seed is set before the model is instantiated; in QAT mode prepare
\* is applied to the fresh model and the state dict is loaded into the prepared
\* model; the dtype validation follows load_state_dict, precedes the transform,
\* and is given the model that setup stores and quantize then transforms.
C9_SetupOrder ==
    /\ Precedes({"set_seed"}, {"instantiate_model"})
    /\ \A i \in Idx({"prepare"}) :
          /\ log[i].arg = Instantiate
          /\ i > 1 /\ log[i - 1].op = "instantiate_model"
    /\ \A i \in Idx({"load_state_dict"}) :
          log[i].arg = (IF IsQatMode THEN Prepare(Instantiate) ELSE Instantiate)
    /\ Precedes({"load_state_dict"}, {"validate_expected_param_dtype"})
    /\ Precedes({"validate_expected_param_dtype"}, Transforms)
    /\ \A j \in Idx({"validate_expected_param_dtype"}) :
          /\ \E i \in Idx({"load_state_dict"}) : log[j].arg = LoadStateDict(log[i].arg)
          /\ \A i \in Idx(Transforms) : log[i].arg = log[j].arg
          /\ pc = "quantize" => self_model = log[j].arg

C9_Witness ==
    /\ pc = "quantize"
    /\ self_model = <<"instantiate", "prepare", "load_state_dict">>

(***************************************************************************)
(* Properties of the model builders                                        *)
(***************************************************************************)
ArchNames == {"vocab_size", "num_layers", "num_heads", "num_kv_heads", "embed_dim",
              "intermediate_dim", "max_seq_len", "attn_dropout", "norm_eps", "num_classes"}
LoraNames == {"lora_attn_modules", "apply_lora_to_mlp", "apply_lora_to_output",
              "lora_rank", "lora_alpha", "lora_dropout", "use_dora"}

\* the architecture hyperparameters among keyword arguments: which are given,
\* and the value of each
Arch(kw) == [n \in DOMAIN kw \cap ArchNames |-> kw[n]]

\* the value an argument has for the component builder if it reached it
\* unchanged: the caller's, or the documented default when left out
Expected(n) ==
    IF n \in DOMAIN call.kw THEN call.kw[n]
    ELSE [apply_lora_to_mlp |-> FALSE, apply_lora_to_output |-> FALSE, lora_rank |-> 8,
          lora_alpha |-> 16, lora_dropout |-> "0.0", use_dora |-> FALSE][n]

\* C4: qlora_llama2_reward_7b is lora_llama2_reward_7b with quantize_base=True:
\* it calls the LoRA classifier component builder, with num_classes=1.
C4_QloraRewardDelegates ==
    (call.fn = "qlora_llama2_reward_7b" /\ "quantize_base" \notin DOMAIN call.kw) =>
        /\ built.fn = "lora_llama2_classifier"
        /\ built.kw.num_classes = 1
        /\ built.kw.quantize_base = TRUE
        /\ built = lora_llama2_reward_7b(call.kw @@ [quantize_base |-> TRUE])

\* C5: each LoRA builder hands its component builder the architecture
\* hyperparameters of its non-LoRA counterpart (the same ones given, with the
\* same values), whatever the LoRA arguments.
C5_SameArchitecture ==
    /\ call.fn = "lora_llama2_7b"  => Arch(built.kw) = Arch(llama2_7b.kw)
    /\ call.fn = "lora_llama2_13b" => Arch(built.kw) = Arch(llama2_13b.kw)
    /\ call.fn = "lora_llama2_70b" => Arch(built.kw) = Arch(llama2_70b.kw)
    /\ call.fn = "lora_llama2_reward_7b" =>
          /\ Arch(built.kw) = Arch(llama2_reward_7b.kw)
          /\ built.kw.num_classes = 1

C5_Witness ==
    /\ call.fn = "lora_llama2_70b"
    /\ "lora_rank" \in DOMAIN call.kw /\ call.kw.lora_rank = 16
    /\ built.kw.num_kv_heads = 8 /\ built.kw.intermediate_dim = 28672

\* C6: qlora_llama2_S(args) calls lora_llama2 as lora_llama2_S(args,
\* quantize_base=True) does; the LoRA arguments arrive unchanged; lora_llama2_S
\* without quantize_base passes quantize_base=False, and the defaults are
\* lora_rank=8, lora_alpha=16, lora_dropout=0.0, use_dora=False.
C6_QloraIsQuantizedLora ==
    /\ \A S \in {"7b", "13b", "70b"} :
          (call.fn = "qlora_llama2_" \o S /\ "quantize_base" \notin DOMAIN call.kw) =>
             /\ built.fn = "lora_llama2"
             /\ built.kw.quantize_base = TRUE
             /\ \A n \in LoraNames : built.kw[n] = Expected(n)
             /\ built = (CASE S = "7b"  -> lora_llama2_7b(call.kw @@ [quantize_base |-> TRUE])
                           [] S = "13b" -> lora_llama2_13b(call.kw @@ [quantize_base |-> TRUE])
                           [] S = "70b" -> lora_llama2_70b(call.kw @@ [quantize_base |-> TRUE]))
    /\ call.fn \in {"lora_llama2_7b", "lora_llama2_13b", "lora_llama2_70b"} =>
          /\ built.fn = "lora_llama2"
          /\ \A n \in LoraNames : built.kw[n] = Expected(n)
          /\ built.kw.quantize_base =
                (IF "quantize_base" \in DOMAIN call.kw THEN call.kw.quantize_base ELSE FALSE)

C6_Witness ==
    /\ call.fn = "qlora_llama2_7b"
    /\ DOMAIN call.kw = {"lora_attn_modules", "lora_rank"} /\ call.kw.lora_rank = 16
    /\ built.kw.quantize_base = TRUE /\ built.kw.lora_rank = 16 /\ built.kw.lora_alpha = 16

\* C8: llama2_tokenizer hands path, max_seq_len and truncation_type to
\* Llama2Tokenizer unchanged (defaults None and "right"); a None prompt_template
\* is passed on as None without calling _get_prompt_template; any other is
\* replaced by what _get_prompt_template returns for it; left out, the template
\* resolved is torchtune.models.llama2.Llama2ChatTemplate.
C8_Tokenizer ==
    call.fn = "llama2_tokenizer" =>
       LET given(n) == n \in DOMAIN call.kw
           template == IF given("prompt_template") THEN call.kw.prompt_template
                       ELSE {"torchtune.models.llama2.Llama2ChatTemplate"}
       IN /\ built.fn = "Llama2Tokenizer"
          /\ built.kw.path = call.kw.path
          /\ built.kw.max_seq_len = (IF given("max_seq_len") THEN call.kw.max_seq_len ELSE {})
          /\ built.kw.truncation_type =
                (IF given("truncation_type") THEN call.kw.truncation_type ELSE "right")
          /\ template = {} => built.kw.prompt_template = {} /\ resolver_calls = <<>>
          /\ \A t \in template :
                /\ resolver_calls = <<t>>
                /\ built.kw.prompt_template = {GetPromptTemplate(t)}

C8_Witness ==
    /\ call.fn = "llama2_tokenizer"
    /\ DOMAIN call.kw = {"path", "truncation_type"} /\ call.kw.truncation_type = "left"
    /\ resolver_calls = <<"torchtune.models.llama2.Llama2ChatTemplate">>

(***************************************************************************)
(* Properties of the checkpoint file naming                                *)
(***************************************************************************)
\* C10: the file written is "<stem>-<base mode>.ckpt" in the output directory,
\* the stem being the file name up to its first '.', the base mode the mode
\* without a trailing "-qat"; nothing else is removed, so that two different
\* base modes never give the same name for the same stem.
C10_FileName ==
    name_result # <<>> =>
       LET stem     == SplitFirst(name_args.file, ".")
           base(m)  == RemoveSuffix(m, DashQat)
       IN /\ name_result =
                Append(name_args.output_dir, stem \o <<"-">> \o base(name_args.mode) \o Ckpt)
          /\ \A m \in ModeStrings :
                base(m) # base(name_args.mode) =>
                   CheckpointFile(name_args.output_dir, name_args.file, m) # name_result

====
